---- MODULE Spec2Model ----
(***************************************************************************)
(* Model of the JSRenderer of vugu (renderer-js.go): one Render pass walks *)
(* a virtual tree (VGNode), writes tree-synchronisation instructions into  *)
(* a fixed-capacity instruction buffer and flushes the buffer to the host  *)
(* document.  Render is synchronous and single-threaded, so one Render     *)
(* call is one step of the state machine.                                  *)
(***************************************************************************)
EXTENDS Integers, Sequences, FiniteSets, TLC

VARIABLES
    MountPointSelector,  \* JSRenderer.MountPointSelector
    instructionList,     \* JSRenderer.instructionList: [buf, pos]
    host,                \* the host document and the executor's cursor
    pass,                \* number of Render calls made so far
    last,                \* what the last Render call did (history)
    prev                 \* what the Render call before it did (history)

vars == <<MountPointSelector, instructionList, host, pass, last, prev>>

(***************************************************************************)
(* Bounds of the model.                                                    *)
(***************************************************************************)
MaxPasses == 2      \* Render calls per behaviour
MaxKids == 2        \* children of the root in the enumerated trees
WideKids == 11      \* children of the wide tree (two-digit child index)
BigLen == 2500      \* bytes of the string written "BIG"
HugeLen == 5000     \* bytes of the string written "HUGE" (more than a buffer)

(***************************************************************************)
(* Program constants.                                                      *)
(***************************************************************************)
BufCap == 4096

NoErr == "nil"
ErrJS == "js environment not available"
ErrBoNil == "BuildOut is nil"
ErrDocNil == "BuildOut.Doc is nil"
ErrDocType == "BuildOut.Doc.Type is not ElementNode"
ErrRootType == "root of component must be element"
ErrUnexpectedTag == "unexpected tag inside html"
ErrUnknownType == "unknown node type"
ErrDoesNotFit == "BufferOverflow"
\* not an error value: window.Call panics and the panic unwinds through Render
ErrPanic == "panic: JavaScript error"

(***************************************************************************)
(* Strings.  A string is a TLA+ string; the two long strings "BIG" and     *)
(* "HUGE" stand for strings of BigLen and HugeLen bytes.                   *)
(***************************************************************************)
StrLen(s) ==
    CASE s = "BIG" -> BigLen
      [] s = "HUGE" -> HugeLen
      [] OTHER -> Len(s)

\* strings.ToLower on the tags the model uses
ToLower(s) ==
    CASE s = "HTML" -> "html"
      [] s = "Html" -> "html"
      [] s = "HEAD" -> "head"
      [] s = "Body" -> "body"
      [] s = "DIV" -> "div"
      [] OTHER -> s

\* a byte sequence (sequence of one-character strings) as a string
RECURSIVE Str(_)
Str(b) == IF b = <<>> THEN "" ELSE b[1] \o Str(Tail(b))

Digit(d) == <<"0", "1", "2", "3", "4", "5", "6", "7", "8", "9">>[d + 1]

\* the bytes of fmt.Sprintf("%d", n), n >= 0
RECURSIVE Dec(_)
Dec(n) == IF n < 10 THEN <<Digit(n)>> ELSE Dec(n \div 10) \o <<Digit(n % 10)>>

\* the bytes of fmt.Sprintf("_%d", childIndex)
SprintfChild(childIndex) == <<"_">> \o Dec(childIndex)

(***************************************************************************)
(* The virtual tree.  A *VGNode or *string is a sequence of length at most *)
(* one (<<>> is nil); the FirstChild/NextSibling list of a node is the     *)
(* sequence Kids.                                                          *)
(***************************************************************************)
VGNode(type, data, attr, specs, inner, kids) ==
    [Type |-> type, Data |-> data, Attr |-> attr,
     DOMEventHandlerSpecList |-> specs, InnerHTML |-> inner, Kids |-> kids]

VGAttribute(k, v) == [Key |-> k, Val |-> v]
DOMEventHandlerSpec(t, c, p) == [EventType |-> t, Capture |-> c, Passive |-> p]

Elem(tag, attr, specs, kids) == VGNode("ElementNode", tag, attr, specs, <<>>, kids)
Raw(tag, markup, kids) == VGNode("ElementNode", tag, <<>>, <<>>, <<markup>>, kids)
Text(s) == VGNode("TextNode", s, <<>>, <<>>, <<>>, <<>>)
Comment(s) == VGNode("CommentNode", s, <<>>, <<>>, <<>>, <<>>)

(***************************************************************************)
(* Instructions.  Every instruction is a record of the same shape; the     *)
(* fields an opcode does not use are empty.                                *)
(***************************************************************************)
Instr(op, key, val, pid, capture, passive) ==
    [op |-> op, key |-> key, val |-> val, pid |-> pid,
     capture |-> capture, passive |-> passive]

Op0(op) == Instr(op, "", "", "", FALSE, FALSE)
Op1(op, s) == Instr(op, s, "", "", FALSE, FALSE)

ClearElement == Op0("ClearElement")
SelectMountPoint(sel, tag) == Instr("SelectMountPoint", sel, tag, "", FALSE, FALSE)
SetElement(tag) == Op1("SetElement", tag)
SetText(s) == Op1("SetText", s)
SetComment(s) == Op1("SetComment", s)
SetAttrStr(k, v) == Instr("SetAttr", k, v, "", FALSE, FALSE)
RemoveOtherAttrs == Op0("RemoveOtherAttrs")
SetEventListener(pid, t, c, p) == Instr("SetEventListener", t, "", pid, c, p)
RemoveOtherEventListeners(pid) == Instr("RemoveOtherEventListeners", "", "", pid, FALSE, FALSE)
SetInnerHTML(m) == Op1("SetInnerHTML", m)
MoveToFirstChild == Op0("MoveToFirstChild")
MoveToNextSibling == Op0("MoveToNextSibling")
MoveToParent == Op0("MoveToParent")

\* encoded size: one opcode byte, the bytes of the string arguments, and one
\* byte per flag of SetEventListener
InstrSize(ins) ==
    1 + StrLen(ins.key) + StrLen(ins.val) + StrLen(ins.pid)
      + (IF ins.op = "SetEventListener" THEN 2 ELSE 0)

RECURSIVE TotalSize(_)
TotalSize(seq) == IF seq = <<>> THEN 0 ELSE InstrSize(seq[1]) + TotalSize(Tail(seq))

(***************************************************************************)
(* The host document and its instruction executor (the vuguRender script). *)
(* A host node is [kind, data, attrs, lst, kids]; the executor keeps a     *)
(* cursor (on, path: child indexes below the mount element), the attribute *)
(* keys and listener types asserted at the current node, and a fault flag  *)
(* raised by a protocol violation.  eager is the placeholder policy: an    *)
(* eager executor creates a placeholder node when the cursor moves to a    *)
(* child or sibling that does not exist, a lazy one waits for Set*.        *)
(***************************************************************************)
HNode(kind, data, attrs, lst, kids) ==
    [kind |-> kind, data |-> data, attrs |-> attrs, lst |-> lst, kids |-> kids]

HElem(tag, attrs, lst, kids) == HNode("element", tag, attrs, lst, kids)
HText(s) == HNode("text", s, {}, {}, <<>>)
HComment(s) == HNode("comment", s, {}, {}, <<>>)
HRaw(m) == HNode("raw", m, {}, {}, <<>>)
HPlaceholder == HNode("placeholder", "", {}, {}, <<>>)
HListener(t, c, p, pid) == [EventType |-> t, Capture |-> c, Passive |-> p, pid |-> pid]

RECURSIVE HExists(_, _)
HExists(node, path) ==
    \/ path = <<>>
    \/ /\ path[1] <= Len(node.kids)
       /\ HExists(node.kids[path[1]], Tail(path))

RECURSIVE HGet(_, _)
HGet(node, path) ==
    IF path = <<>> THEN node ELSE HGet(node.kids[path[1]], Tail(path))

\* the tree with the node at path replaced by new, or appended when path names
\* the position just after the last child
RECURSIVE HPut(_, _, _)
HPut(node, path, new) ==
    IF path = <<>> THEN new
    ELSE IF path[1] <= Len(node.kids)
    THEN [node EXCEPT !.kids[path[1]] = HPut(@, Tail(path), new)]
    ELSE [node EXCEPT !.kids = Append(@, new)]

Parent(path) == SubSeq(path, 1, Len(path) - 1)

\* the cursor names a position a node can be put at
HCanPut(h) ==
    /\ h.on
    /\ h.mount # <<>>
    /\ \/ h.path = <<>>
       \/ /\ HExists(h.mount[1], Parent(h.path))
          /\ HGet(h.mount[1], Parent(h.path)).kind = "element"
          /\ h.path[Len(h.path)] <= Len(HGet(h.mount[1], Parent(h.path)).kids) + 1

HAtNode(h) == h.on /\ h.mount # <<>> /\ HExists(h.mount[1], h.path)
HAtElement(h) == HAtNode(h) /\ HGet(h.mount[1], h.path).kind = "element"
HCur(h) == HGet(h.mount[1], h.path)
HFault(h) == [h EXCEPT !.fault = TRUE]
HSetCur(h, node) == [h EXCEPT !.mount = <<HPut(h.mount[1], h.path, node)>>]

\* Set* at the cursor: keep a node that already is what is asked for, put a
\* fresh one otherwise
HEnsure(h, keep, fresh) ==
    IF ~HCanPut(h) THEN HFault(h)
    ELSE [(IF HAtNode(h) /\ keep THEN h ELSE HSetCur(h, fresh))
            EXCEPT !.setAttrs = {}, !.setTypes = {}]

HMove(h, path) ==
    LET moved == [h EXCEPT !.path = path, !.setAttrs = {}, !.setTypes = {}]
    IN  IF h.eager /\ HCanPut(moved) /\ ~HAtNode(moved)
        THEN HSetCur(moved, HPlaceholder)
        ELSE moved

HExec(h, ins) ==
    CASE ins.op = "ClearElement" ->
            [h EXCEPT !.on = FALSE, !.path = <<>>, !.setAttrs = {}, !.setTypes = {}]
      [] ins.op = "SelectMountPoint" ->
            [h EXCEPT !.on = TRUE, !.path = <<>>, !.setAttrs = {}, !.setTypes = {},
                      !.mount = IF /\ h.mount # <<>>
                                   /\ h.mount[1].kind = "element"
                                   /\ h.mount[1].data = ins.val
                                THEN h.mount
                                ELSE <<HElem(ins.val, {}, {}, <<>>)>>]
      [] ins.op = "SetElement" ->
            HEnsure(h, HAtElement(h) /\ HCur(h).data = ins.key,
                    HElem(ins.key, {}, {}, <<>>))
      [] ins.op = "SetText" ->
            HEnsure(h, HAtNode(h) /\ HCur(h) = HText(ins.key), HText(ins.key))
      [] ins.op = "SetComment" ->
            HEnsure(h, HAtNode(h) /\ HCur(h) = HComment(ins.key), HComment(ins.key))
      [] ins.op = "SetAttr" ->
            IF ~HAtElement(h) THEN HFault(h)
            ELSE [HSetCur(h, [HCur(h) EXCEPT !.attrs =
                        {a \in @ : a.Key # ins.key} \cup {VGAttribute(ins.key, ins.val)}])
                    EXCEPT !.setAttrs = @ \cup {ins.key}]
      [] ins.op = "RemoveOtherAttrs" ->
            IF ~HAtElement(h) THEN HFault(h)
            ELSE HSetCur(h, [HCur(h) EXCEPT !.attrs = {a \in @ : a.Key \in h.setAttrs}])
      [] ins.op = "SetEventListener" ->
            IF ~HAtElement(h) THEN HFault(h)
            ELSE [HSetCur(h, [HCur(h) EXCEPT !.lst =
                        {l \in @ : l.EventType # ins.key}
                        \cup {HListener(ins.key, ins.capture, ins.passive, ins.pid)}])
                    EXCEPT !.setTypes = @ \cup {ins.key}]
      [] ins.op = "RemoveOtherEventListeners" ->
            IF ~HAtElement(h) THEN HFault(h)
            ELSE HSetCur(h, [HCur(h) EXCEPT !.lst = {l \in @ : l.EventType \in h.setTypes}])
      [] ins.op = "SetInnerHTML" ->
            IF ~HAtElement(h) THEN HFault(h)
            ELSE HSetCur(h, [HCur(h) EXCEPT !.kids = <<HRaw(ins.key)>>])
      [] ins.op = "MoveToFirstChild" ->
            IF ~HAtElement(h) THEN HFault(h) ELSE HMove(h, h.path \o <<1>>)
      [] ins.op = "MoveToNextSibling" ->
            IF ~h.on \/ h.path = <<>> THEN HFault(h)
            ELSE HMove(h, Parent(h.path) \o <<h.path[Len(h.path)] + 1>>)
      [] ins.op = "MoveToParent" ->
            IF ~h.on \/ h.path = <<>> THEN HFault(h)
            ELSE [h EXCEPT !.path = Parent(h.path), !.setAttrs = {}, !.setTypes = {}]
      [] OTHER -> HFault(h)

\* vuguRender: the host executes the instructions of one flushed region in
\* order and stops at a protocol violation
RECURSIVE vuguRender(_, _)
vuguRender(h, region) ==
    IF region = <<>> THEN h
    ELSE LET h1 == HExec(h, region[1])
         IN  IF h1.fault THEN h1 ELSE vuguRender(h1, Tail(region))

(***************************************************************************)
(* Go byte slices.  heap is the sequence of backing arrays allocated in    *)
(* this pass (an array is a sequence of bytes as long as its capacity); a  *)
(* slice is [arr, len].  append writes into the backing array when the     *)
(* capacity allows it and allocates a grown array otherwise.               *)
(***************************************************************************)
ZeroByte == " "

\* mallocgc rounds an allocation up to a size class
RoundUpSize(n) ==
    LET classes == {8, 16, 24, 32, 48, 64, 80, 96, 112, 128}
    IN  IF \E c \in classes : c >= n
        THEN CHOOSE c \in classes : c >= n /\ \A d \in classes : d >= n => c <= d
        ELSE n

\* growslice: the capacity of the array append allocates
GrowCap(oldCap, newLen) ==
    RoundUpSize(IF newLen > 2 * oldCap THEN newLen ELSE 2 * oldCap)

SliceBytes(heap, sl) == SubSeq(heap[sl.arr], 1, sl.len)

RECURSIVE Zeros(_)
Zeros(n) == IF n <= 0 THEN <<>> ELSE <<ZeroByte>> \o Zeros(n - 1)

\* a new array of capacity cap holding bytes; the result is [s, sl]
MakeBytes(s, bytes, cap) ==
    [s |-> [s EXCEPT !.heap = Append(@, bytes \o Zeros(cap - Len(bytes)))],
     sl |-> [arr |-> Len(s.heap) + 1, len |-> Len(bytes)]]

\* append(sl, more...); the result is [s, sl]
GoAppend(s, sl, more) ==
    IF sl.len + Len(more) <= Len(s.heap[sl.arr])
    THEN [s |-> [s EXCEPT !.heap[sl.arr] =
                    SubSeq(@, 1, sl.len) \o more
                    \o SubSeq(@, sl.len + Len(more) + 1, Len(@))],
          sl |-> [arr |-> sl.arr, len |-> sl.len + Len(more)]]
    ELSE MakeBytes(s, SliceBytes(s.heap, sl) \o more,
                   GrowCap(Len(s.heap[sl.arr]), sl.len + Len(more)))

(***************************************************************************)
(* The state a Render call works on: the instruction list il = [buf, pos]  *)
(* (the instructions pending in the buffer and the bytes they take), the   *)
(* host, the heap, err (the error value the current call returns) and the  *)
(* history of the pass: written (instructions written), flushed (regions   *)
(* handed to the host), failed/firstErr (an error was created), late       *)
(* (writes and flushes made after an error), nHead/nBody (calls of         *)
(* visitHead/visitBody).                                                   *)
(***************************************************************************)
Fail(s, e) ==
    [s EXCEPT !.err = e, !.failed = TRUE,
              !.firstErr = IF s.failed THEN @ ELSE e]

Ok(s) == [s EXCEPT !.err = NoErr]

\* "if err != nil { return err }" after a call that left s, F being the rest
\* of the function
Then(s, F(_)) == IF s.err # NoErr THEN s ELSE F(s)

\* history: a write or flush is being called
Called(s) == [s EXCEPT !.late = IF s.failed THEN @ + 1 ELSE @]

\* the flush callback NewJSRenderer installs: the host runs the buffer and the
\* callback returns nil; when the call of vuguRender throws, window.Call panics
flushFunc(s) ==
    IF s.hostOK
    THEN [s EXCEPT !.host = vuguRender(@, s.il.buf), !.err = NoErr]
    ELSE Fail(s, ErrPanic)

\* instructionList.flush
flush(s) ==
    Then(flushFunc(Called(s)), LAMBDA t :
        [t EXCEPT !.flushed = Append(@, t.il.buf),
                  !.il = [buf |-> <<>>, pos |-> 0]])

\* one encoded instruction goes into the buffer
putInstr(s, ins) ==
    [s EXCEPT !.il = [buf |-> Append(s.il.buf, ins),
                      pos |-> s.il.pos + InstrSize(ins)],
              !.written = Append(@, ins),
              !.err = NoErr]

\* instructionList.write<Op>: one instruction into the buffer, after an
\* automatic flush when the buffer lacks room
writeInstr(s, ins) ==
    IF InstrSize(ins) > BufCap THEN Fail(Called(s), ErrDoesNotFit)
    ELSE IF s.il.pos + InstrSize(ins) > BufCap
    THEN Then(flush(Called(s)), LAMBDA t : putInstr(t, ins))
    ELSE putInstr(Called(s), ins)

writeClearEl(s) == writeInstr(s, ClearElement)
writeSelectMountPoint(s, sel, tag) == writeInstr(s, SelectMountPoint(sel, tag))
writeSetElement(s, tag) == writeInstr(s, SetElement(tag))
writeSetText(s, text) == writeInstr(s, SetText(text))
writeSetComment(s, text) == writeInstr(s, SetComment(text))
writeSetAttrStr(s, k, v) == writeInstr(s, SetAttrStr(k, v))
writeRemoveOtherAttrs(s) == writeInstr(s, RemoveOtherAttrs)
writeSetEventListener(s, positionID, t, c, p) ==
    writeInstr(s, SetEventListener(Str(SliceBytes(s.heap, positionID)), t, c, p))
writeRemoveOtherEventListeners(s, positionID) ==
    writeInstr(s, RemoveOtherEventListeners(Str(SliceBytes(s.heap, positionID))))
writeSetInnerHTML(s, html) == writeInstr(s, SetInnerHTML(html))
writeMoveToFirstChild(s) == writeInstr(s, MoveToFirstChild)
writeMoveToNextSibling(s) == writeInstr(s, MoveToNextSibling)
writeMoveToParent(s) == writeInstr(s, MoveToParent)

(***************************************************************************)
(* The visitor.  Every operator takes the state s and returns the state    *)
(* after the call, with the call's return value in err.                    *)
(***************************************************************************)
RECURSIVE visitSyncNode(_, _, _), visitSyncElementEtc(_, _, _)
RECURSIVE attrLoop(_, _, _), specLoop(_, _, _, _), childLoop(_, _, _, _, _)
RECURSIVE htmlLoop(_, _, _, _)

visitHead(s, n, positionID) == Ok([s EXCEPT !.nHead = @ + 1])

visitBody(s, n, positionID) == Ok([s EXCEPT !.nBody = @ + 1])

\* for _, a := range n.Attr
attrLoop(s, Attr, i) ==
    IF i > Len(Attr) THEN Ok(s)
    ELSE Then(writeSetAttrStr(s, Attr[i].Key, Attr[i].Val), LAMBDA s1 :
              attrLoop(s1, Attr, i + 1))

\* for _, hs := range n.DOMEventHandlerSpecList
specLoop(s, list, i, positionID) ==
    IF i > Len(list) THEN Ok(s)
    ELSE Then(writeSetEventListener(s, positionID, list[i].EventType,
                                    list[i].Capture, list[i].Passive), LAMBDA s1 :
              specLoop(s1, list, i + 1, positionID))

\* variant of childLoop: the error of a child's visit is not returned
childLoop_IgnoreChildError(s, Kids, i, childIndex, positionID) ==
    IF i > Len(Kids) THEN Ok(s)
    ELSE LET childPositionID == GoAppend(s, positionID, SprintfChild(childIndex))
         IN  Then(writeMoveToNextSibling(
                      visitSyncNode(childPositionID.s, Kids[i], childPositionID.sl)),
                  LAMBDA s2 :
                      childLoop(s2, Kids, i + 1, childIndex + 1, positionID))

\* variant of childLoop: no MoveToNextSibling after the last child
childLoop_NoTrailingSibling(s, Kids, i, childIndex, positionID) ==
    IF i > Len(Kids) THEN Ok(s)
    ELSE LET childPositionID == GoAppend(s, positionID, SprintfChild(childIndex))
         IN  Then(visitSyncNode(childPositionID.s, Kids[i], childPositionID.sl), LAMBDA s1 :
             Then(IF i < Len(Kids) THEN writeMoveToNextSibling(s1) ELSE s1, LAMBDA s2 :
                  childLoop(s2, Kids, i + 1, childIndex + 1, positionID)))

\* variant of childLoop: childIndex is not incremented
childLoop_SameIndex(s, Kids, i, childIndex, positionID) ==
    IF i > Len(Kids) THEN Ok(s)
    ELSE LET childPositionID == GoAppend(s, positionID, SprintfChild(childIndex))
         IN  Then(visitSyncNode(childPositionID.s, Kids[i], childPositionID.sl), LAMBDA s1 :
             Then(writeMoveToNextSibling(s1), LAMBDA s2 :
                  childLoop(s2, Kids, i + 1, childIndex, positionID)))

\* for nchild := n.FirstChild; nchild != nil; nchild = nchild.NextSibling,
\* nchild being Kids[i]
childLoop(s, Kids, i, childIndex, positionID) ==
    IF i > Len(Kids) THEN Ok(s)
    ELSE LET childPositionID == GoAppend(s, positionID, SprintfChild(childIndex))
         IN  Then(visitSyncNode(childPositionID.s, Kids[i], childPositionID.sl), LAMBDA s1 :
             Then(writeMoveToNextSibling(s1), LAMBDA s2 :
                  childLoop(s2, Kids, i + 1, childIndex + 1, positionID)))

\* variant of visitSyncElementEtc: MoveToParent is written whether or not the
\* element has children
visitSyncElementEtc_AlwaysMoveToParent(s, n, positionID) ==
    Then(attrLoop(s, n.Attr, 1), LAMBDA s1 :
    Then(writeRemoveOtherAttrs(s1), LAMBDA s2 :
    Then(IF Len(n.DOMEventHandlerSpecList) > 0
         THEN specLoop(s2, n.DOMEventHandlerSpecList, 1, positionID)
         ELSE s2, LAMBDA s3 :
    Then(writeRemoveOtherEventListeners(s3, positionID), LAMBDA s4 :
        IF n.InnerHTML # <<>> THEN writeSetInnerHTML(s4, n.InnerHTML[1])
        ELSE Then(IF n.Kids # <<>>
                  THEN Then(writeMoveToFirstChild(s4), LAMBDA s5 :
                            childLoop(s5, n.Kids, 1, 1, positionID))
                  ELSE s4, LAMBDA s6 :
                  writeMoveToParent(s6))))))

\* variant of visitSyncElementEtc: RemoveOtherAttrs is written before the
\* attributes are set
visitSyncElementEtc_RemoveAttrsFirst(s, n, positionID) ==
    Then(writeRemoveOtherAttrs(s), LAMBDA s1 :
    Then(attrLoop(s1, n.Attr, 1), LAMBDA s2 :
    Then(IF Len(n.DOMEventHandlerSpecList) > 0
         THEN specLoop(s2, n.DOMEventHandlerSpecList, 1, positionID)
         ELSE s2, LAMBDA s3 :
    Then(writeRemoveOtherEventListeners(s3, positionID), LAMBDA s4 :
        IF n.InnerHTML # <<>> THEN writeSetInnerHTML(s4, n.InnerHTML[1])
        ELSE IF n.Kids # <<>>
        THEN Then(writeMoveToFirstChild(s4), LAMBDA s5 :
             Then(childLoop(s5, n.Kids, 1, 1, positionID), LAMBDA s6 :
                  writeMoveToParent(s6)))
        ELSE Ok(s4)))))

\* variant of visitSyncElementEtc: RemoveOtherEventListeners is written only
\* for an element that has handler specs
visitSyncElementEtc_RoelOnlyWithSpecs(s, n, positionID) ==
    Then(attrLoop(s, n.Attr, 1), LAMBDA s1 :
    Then(writeRemoveOtherAttrs(s1), LAMBDA s2 :
    Then(IF Len(n.DOMEventHandlerSpecList) > 0
         THEN Then(specLoop(s2, n.DOMEventHandlerSpecList, 1, positionID), LAMBDA s3 :
                   writeRemoveOtherEventListeners(s3, positionID))
         ELSE s2, LAMBDA s4 :
        IF n.InnerHTML # <<>> THEN writeSetInnerHTML(s4, n.InnerHTML[1])
        ELSE IF n.Kids # <<>>
        THEN Then(writeMoveToFirstChild(s4), LAMBDA s5 :
             Then(childLoop(s5, n.Kids, 1, 1, positionID), LAMBDA s6 :
                  writeMoveToParent(s6)))
        ELSE Ok(s4))))

\* variant of visitSyncElementEtc: the children are walked after SetInnerHTML
visitSyncElementEtc_RawThenKids(s, n, positionID) ==
    Then(attrLoop(s, n.Attr, 1), LAMBDA s1 :
    Then(writeRemoveOtherAttrs(s1), LAMBDA s2 :
    Then(IF Len(n.DOMEventHandlerSpecList) > 0
         THEN specLoop(s2, n.DOMEventHandlerSpecList, 1, positionID)
         ELSE s2, LAMBDA s3 :
    Then(writeRemoveOtherEventListeners(s3, positionID), LAMBDA s4 :
    Then(IF n.InnerHTML # <<>> THEN writeSetInnerHTML(s4, n.InnerHTML[1]) ELSE s4,
         LAMBDA s4b :
        IF n.Kids # <<>>
        THEN Then(writeMoveToFirstChild(s4b), LAMBDA s5 :
             Then(childLoop(s5, n.Kids, 1, 1, positionID), LAMBDA s6 :
                  writeMoveToParent(s6)))
        ELSE Ok(s4b))))))

\* variant of visitSyncElementEtc: the attributes the node no longer has are
\* not removed (no writeRemoveOtherAttrs)
visitSyncElementEtc_KeepAttrs(s, n, positionID) ==
    Then(attrLoop(s, n.Attr, 1), LAMBDA s2 :
    Then(IF Len(n.DOMEventHandlerSpecList) > 0
         THEN specLoop(s2, n.DOMEventHandlerSpecList, 1, positionID)
         ELSE s2, LAMBDA s3 :
    Then(writeRemoveOtherEventListeners(s3, positionID), LAMBDA s4 :
        IF n.InnerHTML # <<>> THEN writeSetInnerHTML(s4, n.InnerHTML[1])
        ELSE IF n.Kids # <<>>
        THEN Then(writeMoveToFirstChild(s4), LAMBDA s5 :
             Then(childLoop(s5, n.Kids, 1, 1, positionID), LAMBDA s6 :
                  writeMoveToParent(s6)))
        ELSE Ok(s4))))

visitSyncElementEtc(s, n, positionID) ==
    Then(attrLoop(s, n.Attr, 1), LAMBDA s1 :
    Then(writeRemoveOtherAttrs(s1), LAMBDA s2 :
    Then(IF Len(n.DOMEventHandlerSpecList) > 0
         THEN specLoop(s2, n.DOMEventHandlerSpecList, 1, positionID)
         ELSE s2, LAMBDA s3 :
    Then(writeRemoveOtherEventListeners(s3, positionID), LAMBDA s4 :
        IF n.InnerHTML # <<>> THEN writeSetInnerHTML(s4, n.InnerHTML[1])
        ELSE IF n.Kids # <<>>
        THEN Then(writeMoveToFirstChild(s4), LAMBDA s5 :
             Then(childLoop(s5, n.Kids, 1, 1, positionID), LAMBDA s6 :
                  writeMoveToParent(s6)))
        ELSE Ok(s4)))))

\* variant of visitSyncNode: the text and comment cases do not return
visitSyncNode_ContentFallsThrough(s, n, positionID) ==
    Then(CASE n.Type = "ElementNode" -> writeSetElement(s, n.Data)
           [] n.Type = "TextNode" -> writeSetText(s, n.Data)
           [] n.Type = "CommentNode" -> writeSetComment(s, n.Data)
           [] OTHER -> Fail(s, ErrUnknownType), LAMBDA s1 :
         visitSyncElementEtc(s1, n, positionID))

visitSyncNode(s, n, positionID) ==
    CASE n.Type = "ElementNode" ->
            Then(writeSetElement(s, n.Data), LAMBDA s1 :
                 visitSyncElementEtc(s1, n, positionID))
      [] n.Type = "TextNode" -> writeSetText(s, n.Data)
      [] n.Type = "CommentNode" -> writeSetComment(s, n.Data)
      [] OTHER -> Fail(s, ErrUnknownType)

\* variant of visitMount: the mounted element is synchronised as a child is,
\* through visitSyncNode
visitMount_AsChild(s, n, positionID) ==
    Then(writeSelectMountPoint(s, MountPointSelector, n.Data), LAMBDA s1 :
         visitSyncNode(s1, n, positionID))

visitMount(s, n, positionID) ==
    Then(writeSelectMountPoint(s, MountPointSelector, n.Data), LAMBDA s1 :
         visitSyncElementEtc(s1, n, positionID))

\* variant of the loop of visitFirst: a child that is neither head nor body is
\* skipped
htmlLoop_SkipUnexpected(s, Kids, i, positionID) ==
    IF i > Len(Kids) THEN Ok(s)
    ELSE IF ToLower(Kids[i].Data) = "head"
    THEN Then(visitHead(s, Kids[i], positionID), LAMBDA s1 :
              htmlLoop(s1, Kids, i + 1, positionID))
    ELSE IF ToLower(Kids[i].Data) = "body"
    THEN Then(visitBody(s, Kids[i], positionID), LAMBDA s1 :
              htmlLoop(s1, Kids, i + 1, positionID))
    ELSE htmlLoop(s, Kids, i + 1, positionID)

\* for nchild := n.FirstChild; ... of visitFirst, nchild being Kids[i]
htmlLoop(s, Kids, i, positionID) ==
    IF i > Len(Kids) THEN Ok(s)
    ELSE IF ToLower(Kids[i].Data) = "head"
    THEN Then(visitHead(s, Kids[i], positionID), LAMBDA s1 :
              htmlLoop(s1, Kids, i + 1, positionID))
    ELSE IF ToLower(Kids[i].Data) = "body"
    THEN Then(visitBody(s, Kids[i], positionID), LAMBDA s1 :
              htmlLoop(s1, Kids, i + 1, positionID))
    ELSE Fail(s, ErrUnexpectedTag)

visitFirst(s, n, positionID) ==
    IF n.Type # "ElementNode" THEN Fail(s, ErrRootType)
    ELSE Then(writeClearEl(s), LAMBDA s1 :
              IF ToLower(n.Data) = "html"
              THEN htmlLoop(s1, n.Kids, 1, positionID)
              ELSE visitMount(s1, n, positionID))

\* variant of Render: ClearElement is written before the input is checked
RenderBody_ClearBeforeChecks(s, jsOK, bo, rootCap) ==
    Then(writeClearEl(s), LAMBDA s0 :
        IF ~jsOK THEN Fail(s0, ErrJS)
        ELSE IF bo = <<>> THEN Fail(s0, ErrBoNil)
        ELSE IF bo[1].Doc = <<>> THEN Fail(s0, ErrDocNil)
        ELSE IF bo[1].Doc[1].Type # "ElementNode" THEN Fail(s0, ErrDocType)
        ELSE LET positionID == MakeBytes(s0, <<"0">>, rootCap)
             IN  Then(visitMount(positionID.s, bo[1].Doc[1], positionID.sl), LAMBDA s1 :
                      flush(s1)))

\* variant of Render: the final flush is missing
RenderBody_NoFinalFlush(s, jsOK, bo, rootCap) ==
    IF ~jsOK THEN Fail(s, ErrJS)
    ELSE IF bo = <<>> THEN Fail(s, ErrBoNil)
    ELSE IF bo[1].Doc = <<>> THEN Fail(s, ErrDocNil)
    ELSE IF bo[1].Doc[1].Type # "ElementNode" THEN Fail(s, ErrDocType)
    ELSE LET positionID == MakeBytes(s, <<"0">>, rootCap)
         IN  visitFirst(positionID.s, bo[1].Doc[1], positionID.sl)

\* JSRenderer.Render on the state s: jsOK is js.Global().Truthy(), bo the
\* *BuildOut, rootCap the capacity of the array []byte("0") gets
RenderBody(s, jsOK, bo, rootCap) ==
    IF ~jsOK THEN Fail(s, ErrJS)
    ELSE IF bo = <<>> THEN Fail(s, ErrBoNil)
    ELSE IF bo[1].Doc = <<>> THEN Fail(s, ErrDocNil)
    ELSE IF bo[1].Doc[1].Type # "ElementNode" THEN Fail(s, ErrDocType)
    ELSE LET positionID == MakeBytes(s, <<"0">>, rootCap)
         IN  Then(visitFirst(positionID.s, bo[1].Doc[1], positionID.sl), LAMBDA s1 :
                  flush(s1))

(***************************************************************************)
(* Inputs: the BuildOut values Render is called with.  A *BuildOut is a    *)
(* sequence of length at most one.                                         *)
(***************************************************************************)
BuildOut(doc) == <<[Doc |-> <<doc>>]>>

Click == DOMEventHandlerSpec("click", FALSE, FALSE)
Input == DOMEventHandlerSpec("input", TRUE, FALSE)
Scroll == DOMEventHandlerSpec("scroll", FALSE, TRUE)

Span == Elem("span", <<VGAttribute("id", "a")>>, <<Click>>, <<Text("x")>>)
RawP == Raw("p", "<b>raw</b>", <<Text("ignored"), Elem("i", <<>>, <<Click>>, <<>>)>>)
Ul == Elem("ul", <<>>, <<>>, <<>>)

KidSet == {Text("hi"), Span, Ul}

KidLists == UNION {[1..n -> KidSet] : n \in 0..MaxKids}

Div(kids) ==
    Elem("div", <<VGAttribute("class", "b"), VGAttribute("id", "r")>>, <<Input>>, kids)

\* a chain deep enough for its PositionID to outgrow an 8-byte array
Deep ==
    Div(<<Elem("section", <<>>, <<Click>>,
            <<Elem("article", <<>>, <<Click, Scroll>>,
                <<Elem("em", <<>>, <<Click>>,
                    <<Elem("b", <<>>, <<Click>>, <<Text("deep")>>),
                      Elem("u", <<>>, <<Click>>, <<>>)>>),
                  Elem("q", <<>>, <<Click>>, <<>>)>>),
              Elem("s", <<>>, <<Click>>, <<>>)>>)>>)

Wide == Div([i \in 1..WideKids |-> Elem("li", <<>>, <<Click>>, <<>>)])

\* a child of a type visitSyncNode does not know, deep in the tree
BadDeep ==
    Div(<<Text("pre"),
          Elem("span", <<>>, <<>>,
               <<VGNode("DocumentNode", "", <<>>, <<>>, <<>>, <<>>), Text("after")>>),
          Text("later")>>)

Mixed == Div(<<Comment("c"), RawP, Ul, Span>>)

Bigs == Div(<<Text("BIG"), Text("BIG"), Text("BIG")>>)
BigPair == Div(<<Text("BIG"), Comment("c"), Text("BIG")>>)
HugeMid == Div(<<Text("a"), Text("HUGE"), Text("b")>>)

\* a text and a comment node that carry what only elements use
TextExtras ==
    Div(<<VGNode("TextNode", "t", <<VGAttribute("id", "x")>>, <<Click>>,
                 <<"<b>raw</b>">>, <<Text("kid")>>),
          VGNode("CommentNode", "k", <<VGAttribute("id", "y")>>, <<Click>>,
                 <<>>, <<Text("kid")>>)>>)

RootRaw == Raw("div", "<i>x</i>", <<Text("ignored")>>)
Small == Elem("div", <<VGAttribute("id", "a")>>, <<>>, <<Span>>)
SpanRoot == Elem("span", <<>>, <<Click>>, <<Ul, Text("hi")>>)

HtmlDoc == Elem("html", <<>>, <<>>, <<Elem("head", <<>>, <<>>, <<>>), Elem("body", <<>>, <<>>, <<Span>>)>>)
HtmlUpper ==
    Elem("HTML", <<>>, <<>>,
         <<Elem("HEAD", <<>>, <<>>, <<>>), Elem("div", <<>>, <<>>, <<>>),
           Elem("Body", <<>>, <<>>, <<>>)>>)
HtmlEmpty == Elem("Html", <<>>, <<>>, <<>>)
BodyRoot == Elem("body", <<>>, <<>>, <<Text("hi")>>)
HeadRoot == Elem("HEAD", <<>>, <<>>, <<>>)

Trees ==
    {Div(k) : k \in KidLists}
    \cup {Deep, Wide, Mixed, BadDeep, Bigs, BigPair, HugeMid, TextExtras, RootRaw, Small,
          SpanRoot, HtmlDoc, HtmlUpper, HtmlEmpty, BodyRoot, HeadRoot}

\* inputs Render rejects: a nil BuildOut, a nil Doc, a Doc that is no element
BadBuildOuts ==
    {<<>>, <<[Doc |-> <<>>]>>, BuildOut(Text("hi")),
     BuildOut(VGNode("DocumentNode", "", <<>>, <<>>, <<>>, <<Span>>))}

BuildOuts == {BuildOut(t) : t \in Trees} \cup BadBuildOuts

\* the inputs of the second Render call: the same BuildOut again,
\* or one of these
FollowUps == {BuildOut(Small), BuildOut(BadDeep), BuildOut(HtmlDoc), BuildOut(Bigs)}

\* the inputs of the Render calls after the second: the same BuildOut again,
\* or one of these
LaterBuildOuts == {BuildOut(Small)}

\* the inputs of the Render calls made while the host's vuguRender throws
HostDownBuildOuts == {BuildOut(Small), BuildOut(BigPair)}

RootCaps == {1, 8, 32}

(***************************************************************************)
(* Prior states of the host document.                                      *)
(***************************************************************************)
HostRich ==
    HElem("div",
          {VGAttribute("class", "old"), VGAttribute("lang", "en")},
          {HListener("scroll", FALSE, FALSE, "0"), HListener("input", FALSE, FALSE, "9")},
          <<HElem("ul", {VGAttribute("role", "list")}, {}, <<HText("stale")>>),
            HElem("span", {VGAttribute("title", "t")},
                  {HListener("click", TRUE, TRUE, "0_7"), HListener("keyup", FALSE, FALSE, "0_2")},
                  <<HText("old"), HElem("b", {}, {}, <<>>)>>),
            HText("tail"),
            HComment("zz")>>)

HostOther ==
    HElem("span", {VGAttribute("id", "a")}, {},
          <<HText("hi"), HElem("section", {}, {}, <<HElem("p", {}, {}, <<>>)>>)>>)

HostMounts == {<<>>, <<HostRich>>, <<HostOther>>, <<HElem("div", {}, {}, <<>>)>>}

Host(mount, eager) ==
    [mount |-> mount, on |-> FALSE, path |-> <<>>, setAttrs |-> {}, setTypes |-> {},
     fault |-> FALSE, eager |-> eager]

(***************************************************************************)
(* The state machine.                                                      *)
(***************************************************************************)
NoCall ==
    [jsOK |-> TRUE, hostOK |-> TRUE, bo |-> <<>>, written |-> <<>>, flushed |-> <<>>, err |-> NoErr,
     failed |-> FALSE, firstErr |-> NoErr, late |-> 0, nHead |-> 0, nBody |-> 0,
     ilBefore |-> [buf |-> <<>>, pos |-> 0], hostBefore |-> Host(<<>>, FALSE)]

\* NewJSRenderer
Init ==
    /\ MountPointSelector \in {"#app"}
    /\ instructionList = [buf |-> <<>>, pos |-> 0]
    /\ host \in {Host(m, e) : m \in HostMounts, e \in BOOLEAN}
    /\ pass = 0
    /\ last = NoCall
    /\ prev = NoCall

\* one call of JSRenderer.Render; hostOK: the host's vuguRender runs the
\* buffers handed to it in this call (it throws otherwise)
Render(jsOK, hostOK, bo, rootCap) ==
    /\ pass < MaxPasses
    /\ LET s0 == [il |-> instructionList, host |-> host, heap |-> <<>>,
                  hostOK |-> hostOK,
                  written |-> <<>>, flushed |-> <<>>, err |-> NoErr,
                  failed |-> FALSE, firstErr |-> NoErr, late |-> 0,
                  nHead |-> 0, nBody |-> 0]
           s1 == RenderBody(s0, jsOK, bo, rootCap)
       IN  /\ instructionList' = s1.il
           /\ host' = s1.host
           /\ last' = [jsOK |-> jsOK, hostOK |-> hostOK, bo |-> bo, written |-> s1.written,
                       flushed |-> s1.flushed, err |-> s1.err, failed |-> s1.failed,
                       firstErr |-> s1.firstErr, late |-> s1.late,
                       nHead |-> s1.nHead, nBody |-> s1.nBody,
                       ilBefore |-> instructionList, hostBefore |-> host]
    /\ prev' = last
    /\ pass' = pass + 1
    /\ UNCHANGED MountPointSelector

Next ==
    \E jsOK \in BOOLEAN :
        \E hostOK \in (IF jsOK THEN BOOLEAN ELSE {TRUE}) :
            \E rootCap \in (IF jsOK /\ hostOK /\ pass <= 1 THEN RootCaps ELSE {8}),
               bo \in (IF ~jsOK THEN {BuildOut(Small)}
                       ELSE IF ~hostOK THEN HostDownBuildOuts
                       ELSE IF pass = 0 THEN BuildOuts
                       ELSE IF pass = 1 THEN {last.bo} \cup FollowUps
                       ELSE {last.bo} \cup LaterBuildOuts) :
                Render(jsOK, hostOK, bo, rootCap)

Spec == Init /\ [][Next]_vars

(***************************************************************************)
(* Reading a pass.  Doc(l) is the root of the tree of pass l; a path is    *)
(* the sequence of child indexes from the root.                            *)
(***************************************************************************)
HasDoc(l) == l.bo # <<>> /\ l.bo[1].Doc # <<>>
Doc(l) == l.bo[1].Doc[1]
IsHtml(tag) == tag \in {"html", "HTML", "Html"}

\* the pass got past Render's checks and its root is an element other than html
Mounted(l) ==
    /\ l.jsOK
    /\ HasDoc(l)
    /\ Doc(l).Type = "ElementNode"
    /\ ~IsHtml(Doc(l).Data)

Succeeded(l) == l.err = NoErr

RECURSIVE NodeAt(_, _)
NodeAt(n, path) == IF path = <<>> THEN n ELSE NodeAt(n.Kids[path[1]], Tail(path))

\* the walk descends into the children of an element without raw content
Descends(n) == n.Type = "ElementNode" /\ n.InnerHTML = <<>>

\* the paths of the nodes a complete walk from n (at path) visits
RECURSIVE Visited(_, _)
Visited(n, path) ==
    {path} \cup
    (IF Descends(n)
     THEN UNION {Visited(n.Kids[i], path \o <<i>>) : i \in 1..Len(n.Kids)}
     ELSE {})

\* the decimal numerals of the child indexes the model reaches
Numeral(i) ==
    <<"1", "2", "3", "4", "5", "6", "7", "8", "9", "10", "11", "12", "13", "14">>[i]

\* the PositionID the data model gives the node at path
RECURSIVE PidOf(_)
PidOf(path) ==
    IF path = <<>> THEN "0"
    ELSE PidOf(Parent(path)) \o "_" \o Numeral(path[Len(path)])

Range(f) == {f[i] : i \in DOMAIN f}

\* the host node h is what the tree node n at path specifies
Agrees(h, n, path) ==
    CASE n.Type = "ElementNode" ->
            /\ h.kind = "element"
            /\ h.data = n.Data
            /\ h.attrs = Range(n.Attr)
            /\ h.lst = {HListener(hs.EventType, hs.Capture, hs.Passive, PidOf(path)) :
                            hs \in Range(n.DOMEventHandlerSpecList)}
      [] n.Type = "TextNode" -> h.kind = "text" /\ h.data = n.Data
      [] n.Type = "CommentNode" -> h.kind = "comment" /\ h.data = n.Data
      [] OTHER -> FALSE

Count(seq, op) == Cardinality({i \in 1..Len(seq) : seq[i].op = op})

(***************************************************************************)
(* C1  Convergence: after a successful Render of a tree with a non-html    *)
(* element root, whatever the host held before, every node the walk        *)
(* visited is in the host, at the same path below the mount element, with  *)
(* the kind and tag, the text or comment content, the attribute set and    *)
(* the listener set the tree gives it.                                     *)
(***************************************************************************)
C1_Convergence ==
    (pass >= 1 /\ Mounted(last) /\ Succeeded(last)) =>
        /\ ~host.fault
        /\ host.mount # <<>>
        /\ \A p \in Visited(Doc(last), <<>>) :
              /\ HExists(host.mount[1], p)
              /\ Agrees(HGet(host.mount[1], p), NodeAt(Doc(last), p), p)

\* a successful pass over the mixed tree on a host that held other attributes,
\* listeners and nodes
C1_Witness ==
    /\ pass >= 1
    /\ Succeeded(last)
    /\ last.bo = BuildOut(Mixed)
    /\ last.hostBefore.mount = <<HostRich>>
    /\ host.mount # last.hostBefore.mount

(***************************************************************************)
(* C2  Child-list convergence, as claimed: after a successful Render each  *)
(* visited host element without raw content has exactly as many children   *)
(* as the tree lists for it, so an element without children in the tree is *)
(* childless in the host.                                                  *)
(***************************************************************************)
C2_ChildListsConverge ==
    (pass >= 1 /\ Mounted(last) /\ Succeeded(last) /\ host.mount # <<>>) =>
        \A p \in Visited(Doc(last), <<>>) :
            (Descends(NodeAt(Doc(last), p)) /\ HExists(host.mount[1], p)) =>
                Len(HGet(host.mount[1], p).kids) = Len(NodeAt(Doc(last), p).Kids)

RECURSIVE ElemPaths(_, _), KidsElemPaths(_, _, _)
ElemPaths(n, path) ==
    IF n.Type # "ElementNode" THEN <<>>
    ELSE <<path>> \o (IF n.InnerHTML = <<>> THEN KidsElemPaths(n, path, 1) ELSE <<>>)

KidsElemPaths(n, path, i) ==
    IF i > Len(n.Kids) THEN <<>>
    ELSE ElemPaths(n.Kids[i], path \o <<i>>) \o KidsElemPaths(n, path, i + 1)

IsRemoveOtherEventListeners(ins) == ins.op = "RemoveOtherEventListeners"

(***************************************************************************)
(* C4  Raw content short-circuit: an element with InnerHTML, with or       *)
(* without children, gets exactly one SetInnerHTML, written right after    *)
(* its RemoveOtherEventListeners; the next instruction is the parent's     *)
(* MoveToNextSibling (none for the root), never MoveToFirstChild, and the  *)
(* pass writes nothing for its descendants: the Set*, Move* and listener   *)
(* instructions of a successful pass are those of the visited nodes alone. *)
(***************************************************************************)
C4_RawContentShortCircuit ==
    (pass >= 1 /\ Mounted(last)) =>
        LET w == last.written
            root == Doc(last)
            visited == Visited(root, <<>>)
            raw == {p \in visited : NodeAt(root, p).Type = "ElementNode"
                                     /\ NodeAt(root, p).InnerHTML # <<>>}
            walked == {p \in visited : Descends(NodeAt(root, p))
                                        /\ NodeAt(root, p).Kids # <<>>}
        IN  /\ \A i \in 1..Len(w) : w[i].op = "SetInnerHTML" =>
                  /\ i > 1
                  /\ w[i - 1].op = "RemoveOtherEventListeners"
                  /\ \E p \in raw : /\ w[i - 1].pid = PidOf(p)
                                    /\ w[i].key = NodeAt(root, p).InnerHTML[1]
            /\ \A i \in 1..Len(w) : \A p \in raw :
                  (w[i] = RemoveOtherEventListeners(PidOf(p)) /\ i < Len(w)) =>
                      /\ w[i + 1] = SetInnerHTML(NodeAt(root, p).InnerHTML[1])
                      /\ i + 2 <= Len(w) => (p # <<>> /\ w[i + 2] = MoveToNextSibling)
            /\ Succeeded(last) =>
                  /\ Count(w, "SetInnerHTML") = Cardinality(raw)
                  /\ Count(w, "SetElement") + Count(w, "SetText") + Count(w, "SetComment")
                        = Cardinality(visited) - 1
                  /\ Count(w, "MoveToNextSibling") = Cardinality(visited) - 1
                  /\ Count(w, "MoveToFirstChild") = Cardinality(walked)
                  /\ Count(w, "MoveToParent") = Cardinality(walked)
                  /\ \A i \in 1..Len(w) : w[i].pid # "" =>
                        \E p \in visited : w[i].pid = PidOf(p)

\* a successful pass over a tree with an element that has raw content and children
C4_Witness ==
    /\ pass >= 1
    /\ Succeeded(last)
    /\ last.bo = BuildOut(Mixed)
    /\ Count(last.written, "SetInnerHTML") = 1

(***************************************************************************)
(* C5  Idempotent re-render: when two successive Render calls with the     *)
(* same tree both succeed, the second writes the instruction sequence the  *)
(* first wrote, and leaves the host as the first left it.                  *)
(***************************************************************************)
C5_IdempotentRerender ==
    (/\ pass >= 2
     /\ prev.jsOK /\ last.jsOK
     /\ HasDoc(last)
     /\ prev.bo = last.bo
     /\ Succeeded(prev) /\ Succeeded(last)) =>
        /\ last.written = prev.written
        /\ host = last.hostBefore

\* the same tree rendered twice, the first pass having changed the host
C5_Witness ==
    /\ pass >= 2
    /\ prev.jsOK /\ last.jsOK
    /\ Mounted(last)
    /\ prev.bo = last.bo
    /\ Succeeded(prev) /\ Succeeded(last)
    /\ prev.hostBefore.mount # last.hostBefore.mount
    /\ Len(last.written) > 10

(***************************************************************************)
(* C6  PositionID assignment: the root is "0" and the N-th child of the    *)
(* node with PositionID p is p_N.  The PositionIDs the pass writes, in     *)
(* RemoveOtherEventListeners, are those of the visited elements in walk    *)
(* order, so they have one segment per level and are pairwise distinct;    *)
(* each SetEventListener carries the PositionID of the element it is       *)
(* written for; the capacity of the root's byte array, the children's and  *)
(* the later siblings' appends change none of them.                        *)
(***************************************************************************)
C6_PositionIDs ==
    (pass >= 1 /\ Mounted(last)) =>
        LET w == last.written
            ro == SelectSeq(w, IsRemoveOtherEventListeners)
            ref == ElemPaths(Doc(last), <<>>)
            before(i) == Cardinality({j \in 1..i : IsRemoveOtherEventListeners(w[j])})
        IN  /\ Len(ro) <= Len(ref)
            /\ Succeeded(last) => Len(ro) = Len(ref)
            /\ \A i \in 1..Len(ro) : ro[i].pid = PidOf(ref[i])
            /\ \A i, j \in 1..Len(ro) : i # j => ro[i].pid # ro[j].pid
            /\ \A i \in 1..Len(w) : w[i].op = "SetEventListener" =>
                  /\ before(i) < Len(ref)
                  /\ w[i].pid = PidOf(ref[before(i) + 1])

\* a successful pass over a chain whose PositionIDs outgrow the first array,
\* with elements after it at every level
C6_Witness ==
    /\ pass >= 1
    /\ Succeeded(last)
    /\ last.bo = BuildOut(Deep)
    /\ \E i \in 1..Len(last.written) :
          last.written[i] = RemoveOtherEventListeners("0_1_1_1_2")
    /\ \E i \in 1..Len(last.written) :
          last.written[i] = RemoveOtherEventListeners("0_1_2")

Ceil(a, b) == (a + b - 1) \div b

RECURSIVE Concat(_)
Concat(seqs) == IF seqs = <<>> THEN <<>> ELSE seqs[1] \o Concat(Tail(seqs))

\* a successful pass whose instructions each fit the buffer and together do not
Overflowing(l) ==
    /\ l.jsOK
    /\ HasDoc(l)
    /\ Succeeded(l)
    /\ TotalSize(l.written) > BufCap
    /\ \A i \in 1..Len(l.written) : InstrSize(l.written[i]) <= BufCap

(***************************************************************************)
(* C7  Flush count, as claimed: a pass whose instructions each fit the     *)
(* buffer and whose total size exceeds it makes exactly                    *)
(* ceil(totalSize / capacity) flushes.                                     *)
(***************************************************************************)
C7_FlushCountExact ==
    (pass >= 1 /\ Overflowing(last)) =>
        Len(last.flushed) = Ceil(TotalSize(last.written), BufCap)

(***************************************************************************)
(* C7  Flush count, amended: such a pass makes at least                    *)
(* ceil(totalSize / capacity) flushes; an instruction is never split, so   *)
(* a region is flushed before it is full and the count can be higher.      *)
(***************************************************************************)
C7_FlushCountAtLeast ==
    (pass >= 1 /\ Overflowing(last)) =>
        Len(last.flushed) >= Ceil(TotalSize(last.written), BufCap)

\* three big instructions, two buffers' worth of bytes, three flushes
C7_Witness ==
    /\ pass >= 1
    /\ Overflowing(last)
    /\ Ceil(TotalSize(last.written), BufCap) = 2
    /\ Len(last.flushed) = 3

(***************************************************************************)
(* C8  Lossless ordered delivery, as claimed: in a successful Render the   *)
(* regions handed to the host, concatenated in flush order, are exactly    *)
(* the instructions written during that pass, and nothing stays pending in *)
(* the buffer.                                                             *)
(***************************************************************************)
C8_LosslessDelivery ==
    (pass >= 1 /\ last.jsOK /\ HasDoc(last) /\ Succeeded(last)) =>
        /\ Concat(last.flushed) = last.written
        /\ instructionList.buf = <<>>

(***************************************************************************)
(* C9  Render rejects bad input before touching the transport: when the    *)
(* host runtime is unavailable, the BuildOut is nil, its Doc is nil or the *)
(* Doc is no element, Render returns the error of that check, has written  *)
(* and flushed nothing, and the instruction buffer and the host are as     *)
(* they were.                                                              *)
(***************************************************************************)
C9_RejectsBadInput ==
    pass >= 1 =>
        LET rejected(e) ==
                /\ last.err = e
                /\ last.written = <<>>
                /\ last.flushed = <<>>
                /\ instructionList = last.ilBefore
                /\ host = last.hostBefore
        IN  /\ ~last.jsOK => rejected(ErrJS)
            /\ (last.jsOK /\ last.bo = <<>>) => rejected(ErrBoNil)
            /\ (last.jsOK /\ last.bo # <<>> /\ last.bo[1].Doc = <<>>) => rejected(ErrDocNil)
            /\ (last.jsOK /\ HasDoc(last) /\ Doc(last).Type # "ElementNode") =>
                  rejected(ErrDocType)

\* a rejected call made while the buffer held instructions
C9_Witness ==
    /\ pass >= 2
    /\ ~last.jsOK
    /\ last.err = ErrJS
    /\ last.ilBefore.buf # <<>>

(***************************************************************************)
(* C10  Abort on first failure: once a write or a visit step of a pass has *)
(* failed, the pass calls no further write and no flush (so not the final  *)
(* flush either: what it wrote last is still pending), and Render returns  *)
(* that first error.                                                       *)
(***************************************************************************)
C10_AbortOnFirstFailure ==
    pass >= 1 =>
        /\ last.late = 0
        /\ last.failed =>
              /\ last.err # NoErr
              /\ last.err = last.firstErr
              /\ last.written # <<>> =>
                    /\ instructionList.buf # <<>>
                    /\ instructionList.buf[Len(instructionList.buf)]
                          = last.written[Len(last.written)]
        /\ ~last.failed => Succeeded(last)

\* a child of unknown type met below a child of the root, after instructions
\* were written
C10_Witness ==
    /\ pass >= 1
    /\ last.bo = BuildOut(BadDeep)
    /\ last.firstErr = ErrUnknownType
    /\ last.err = ErrUnknownType
    /\ Len(last.written) > 8

IsPrefix(a, b) == Len(a) <= Len(b) /\ SubSeq(b, 1, Len(a)) = a

(***************************************************************************)
(* C11  Pass isolation after an abort, as claimed: what a Render hands to  *)
(* the host, in flush order, is a prefix of what that Render wrote (so it  *)
(* starts with its own ClearElement); instructions an earlier, aborted     *)
(* pass left unflushed are never handed over.                              *)
(***************************************************************************)
C11_PassIsolation ==
    pass >= 1 =>
        LET handed == Concat(last.flushed)
        IN  /\ IsPrefix(handed, last.written)
            /\ handed # <<>> => handed[1] = ClearElement /\ last.written[1] = ClearElement

\* the root is html and has a head or a body child
HasStructuralChild(n) ==
    /\ n.Type = "ElementNode"
    /\ ToLower(n.Data) = "html"
    /\ \E i \in 1..Len(n.Kids) : ToLower(n.Kids[i].Data) \in {"head", "body"}

(***************************************************************************)
(* C12  Unimplemented structural path, as claimed: Render of an html root  *)
(* with a head or a body child ends in a failure (an error or a panic); it *)
(* never returns nil for such a tree.                                      *)
(***************************************************************************)
C12_StructuralPathFails ==
    (pass >= 1 /\ last.jsOK /\ HasDoc(last) /\ HasStructuralChild(Doc(last))) =>
        last.err # NoErr

(***************************************************************************)
(* C13  Forbidden top-level tags, as claimed: Render of a tree whose root  *)
(* element is head or body, in any letter case, returns an error and       *)
(* writes no SelectMountPoint.                                             *)
(***************************************************************************)
C13_ForbiddenTopLevelTags ==
    (/\ pass >= 1
     /\ last.jsOK
     /\ HasDoc(last)
     /\ Doc(last).Type = "ElementNode"
     /\ ToLower(Doc(last).Data) \in {"head", "body"}) =>
        /\ last.err # NoErr
        /\ Count(last.written, "SelectMountPoint") = 0

\* the call of vuguRender failed during a flush of the pass
HostCallFailed(l) == l.firstErr = ErrPanic

\* Render returned to its caller (no panic unwound through it)
Returned(l) == l.err # ErrPanic

(***************************************************************************)
(* C14  Host flush failure is reported, as claimed: when the host's        *)
(* vuguRender call fails during a flush, flush returns an error and Render *)
(* returns that error to its caller, and nothing more is written or        *)
(* flushed in that pass.                                                   *)
(***************************************************************************)
C14_FlushFailureReturned ==
    (pass >= 1 /\ HostCallFailed(last)) =>
        /\ Returned(last)
        /\ last.err # NoErr
        /\ last.late = 0

\* the indexes of the RemoveOtherEventListeners instructions of w, ascending:
\* the k-th belongs to the k-th element of the walk
RoIdx(w) ==
    LET S == {i \in 1..Len(w) : IsRemoveOtherEventListeners(w[i])}
    IN  [k \in 1..Cardinality(S) |-> CHOOSE i \in S : Cardinality({j \in S : j <= i}) = k]

\* the number of RemoveOtherEventListeners among the first i instructions of w
RoBefore(w, i) == Cardinality({j \in 1..i : IsRemoveOtherEventListeners(w[j])})

RECURSIVE AttrTotal(_, _), SpecTotal(_, _)
AttrTotal(root, paths) ==
    IF paths = <<>> THEN 0
    ELSE Len(NodeAt(root, paths[1]).Attr) + AttrTotal(root, Tail(paths))

SpecTotal(root, paths) ==
    IF paths = <<>> THEN 0
    ELSE Len(NodeAt(root, paths[1]).DOMEventHandlerSpecList) + SpecTotal(root, Tail(paths))

(***************************************************************************)
(* C15  Cursor stays inside the mounted subtree: in the instructions of a  *)
(* pass over a non-html root every prefix holds at least as many           *)
(* MoveToFirstChild as MoveToParent, and more when it ends with a          *)
(* MoveToParent's precondition (the cursor is below the mount element      *)
(* whenever MoveToParent or MoveToNextSibling is written); a successful    *)
(* pass ends with the two counts equal.                                    *)
(***************************************************************************)
C15_CursorInsideMount ==
    (pass >= 1 /\ Mounted(last)) =>
        LET w == last.written
            depth(k) == Count(SubSeq(w, 1, k), "MoveToFirstChild")
                            - Count(SubSeq(w, 1, k), "MoveToParent")
        IN  /\ \A k \in 0..Len(w) : depth(k) >= 0
            /\ \A k \in 1..Len(w) :
                  w[k].op \in {"MoveToParent", "MoveToNextSibling"} => depth(k - 1) >= 1
            /\ Succeeded(last) => depth(Len(w)) = 0

\* a successful pass that went five levels down and came back
C15_Witness ==
    /\ pass >= 1
    /\ Succeeded(last)
    /\ last.bo = BuildOut(Deep)
    /\ Count(last.written, "MoveToParent") = 5
    /\ last.written[Len(last.written)] = MoveToParent

(***************************************************************************)
(* C16  Attribute sync per element: the instructions of an element are,    *)
(* right after its SetElement (SelectMountPoint for the root), one         *)
(* SetAttr(key, value) per entry of its Attr list in list order, then one  *)
(* RemoveOtherAttrs, also when Attr is empty, and only then its listener   *)
(* instructions; every SetAttr written is for an entry of the Attr list of *)
(* the element being synchronised.                                         *)
(***************************************************************************)
C16_AttributeSync ==
    (pass >= 1 /\ Mounted(last)) =>
        LET w == last.written
            root == Doc(last)
            ref == ElemPaths(root, <<>>)
            ri == RoIdx(w)
        IN  /\ Len(ri) <= Len(ref)
            /\ \A k \in 1..Len(ri) :
                  LET n == NodeAt(root, ref[k])
                      a == Len(n.Attr)
                      j == ri[k] - Len(n.DOMEventHandlerSpecList) - 1
                  IN  /\ j - a - 1 >= 2
                      /\ w[j] = RemoveOtherAttrs
                      /\ \A i \in 1..a :
                            w[j - a - 1 + i] = SetAttrStr(n.Attr[i].Key, n.Attr[i].Val)
                      /\ w[j - a - 1] = IF ref[k] = <<>>
                                        THEN SelectMountPoint(MountPointSelector, n.Data)
                                        ELSE SetElement(n.Data)
            /\ \A i \in 1..Len(w) : w[i].op \in {"SetAttr", "RemoveOtherAttrs"} =>
                  /\ RoBefore(w, i) < Len(ref)
                  /\ w[i].op = "SetAttr" =>
                        LET n == NodeAt(root, ref[RoBefore(w, i) + 1])
                        IN  \E x \in 1..Len(n.Attr) :
                                w[i] = SetAttrStr(n.Attr[x].Key, n.Attr[x].Val)
            /\ Count(w, "RemoveOtherAttrs") <= Len(ri) + 1
            /\ Succeeded(last) =>
                  /\ Count(w, "RemoveOtherAttrs") = Len(ref)
                  /\ Count(w, "SetAttr") = AttrTotal(root, ref)

\* a successful pass over elements with two, one and no attributes
C16_Witness ==
    /\ pass >= 1
    /\ Succeeded(last)
    /\ last.bo = BuildOut(Mixed)
    /\ Count(last.written, "SetAttr") = 3
    /\ Count(last.written, "RemoveOtherAttrs") = 4

(***************************************************************************)
(* C17  Listener sync per element: after its RemoveOtherAttrs an element   *)
(* with PositionID p gets one SetEventListener(p, type, capture, passive)  *)
(* per entry of its handler spec list in list order, then one              *)
(* RemoveOtherEventListeners(p), also when the list is empty; every        *)
(* listener instruction carries the PositionID of the element being        *)
(* synchronised.                                                           *)
(***************************************************************************)
C17_ListenerSync ==
    (pass >= 1 /\ Mounted(last)) =>
        LET w == last.written
            root == Doc(last)
            ref == ElemPaths(root, <<>>)
            ri == RoIdx(w)
        IN  /\ Len(ri) <= Len(ref)
            /\ \A k \in 1..Len(ri) :
                  LET n == NodeAt(root, ref[k])
                      l == n.DOMEventHandlerSpecList
                      m == Len(l)
                  IN  /\ ri[k] - m - 1 >= 1
                      /\ w[ri[k]] = RemoveOtherEventListeners(PidOf(ref[k]))
                      /\ \A i \in 1..m :
                            w[ri[k] - m - 1 + i] =
                                SetEventListener(PidOf(ref[k]), l[i].EventType,
                                                 l[i].Capture, l[i].Passive)
                      /\ w[ri[k] - m - 1] = RemoveOtherAttrs
            /\ \A i \in 1..Len(w) : w[i].op = "SetEventListener" =>
                  /\ RoBefore(w, i) < Len(ref)
                  /\ LET q == ref[RoBefore(w, i) + 1]
                         l == NodeAt(root, q).DOMEventHandlerSpecList
                     IN  \E x \in 1..Len(l) :
                             w[i] = SetEventListener(PidOf(q), l[x].EventType,
                                                     l[x].Capture, l[x].Passive)
            /\ Succeeded(last) =>
                  /\ Len(ri) = Len(ref)
                  /\ Count(w, "SetEventListener") = SpecTotal(root, ref)

\* a successful pass with an element that has no handler specs (the third child)
\* next to elements that have some
C17_Witness ==
    /\ pass >= 1
    /\ Succeeded(last)
    /\ last.bo = BuildOut(Mixed)
    /\ \E i \in 1..Len(last.written) : last.written[i] = RemoveOtherEventListeners("0_3")
    /\ \A i \in 1..Len(last.written) :
          last.written[i].op = "SetEventListener" => last.written[i].pid # "0_3"
    /\ \E i \in 1..Len(last.written) :
          last.written[i] = SetEventListener("0_4", "click", FALSE, FALSE)

\* the number of instructions a complete synchronisation of n as a child takes,
\* and that of the first c of Kids with the MoveToNextSibling after each
RECURSIVE BlockLen(_), KidsLen(_, _)
BlockLen(n) ==
    IF n.Type # "ElementNode" THEN 1
    ELSE 3 + Len(n.Attr) + Len(n.DOMEventHandlerSpecList)
           + (IF n.InnerHTML # <<>> THEN 1
              ELSE IF n.Kids = <<>> THEN 0
              ELSE 2 + KidsLen(n.Kids, Len(n.Kids)))

KidsLen(Kids, c) ==
    IF c = 0 THEN 0 ELSE KidsLen(Kids, c - 1) + BlockLen(Kids[c]) + 1

\* the instruction the synchronisation of the child n starts with
FirstOf(n) ==
    CASE n.Type = "ElementNode" -> SetElement(n.Data)
      [] n.Type = "TextNode" -> SetText(n.Data)
      [] n.Type = "CommentNode" -> SetComment(n.Data)
      [] OTHER -> ClearElement

(***************************************************************************)
(* C18  Child walk shape: an element without raw content that has k >= 1   *)
(* children gets MoveToFirstChild right after its                          *)
(* RemoveOtherEventListeners, then for each child in sibling order the     *)
(* child's instructions followed by one MoveToNextSibling (k in all, one   *)
(* after the last child too), then one MoveToParent; an element without    *)
(* children and raw content gets no navigation instruction (what follows   *)
(* its RemoveOtherEventListeners is its parent's MoveToNextSibling, and    *)
(* nothing for the root).                                                  *)
(***************************************************************************)
C18_ChildWalkShape ==
    (pass >= 1 /\ Mounted(last)) =>
        LET w == last.written
            root == Doc(last)
            ref == ElemPaths(root, <<>>)
            ri == RoIdx(w)
        IN  /\ Len(ri) <= Len(ref)
            /\ \A k \in 1..Len(ri) :
                  LET n == NodeAt(root, ref[k])
                      j == ri[k]
                      K == n.Kids
                  IN  /\ (Descends(n) /\ K # <<>> /\ j < Len(w)) =>
                            w[j + 1] = MoveToFirstChild
                      /\ (Descends(n) /\ K # <<>> /\ Succeeded(last)) =>
                            /\ j + 2 + KidsLen(K, Len(K)) <= Len(w)
                            /\ \A c \in 1..Len(K) :
                                  /\ w[j + 2 + KidsLen(K, c - 1)] = FirstOf(K[c])
                                  /\ w[j + 1 + KidsLen(K, c)] = MoveToNextSibling
                            /\ w[j + 2 + KidsLen(K, Len(K))] = MoveToParent
                      /\ (Descends(n) /\ K = <<>>) =>
                            IF ref[k] = <<>> THEN j = Len(w)
                            ELSE j < Len(w) => w[j + 1] = MoveToNextSibling
            /\ Succeeded(last) => Len(w) = 1 + BlockLen(root)

\* a successful pass over a root with four children, one of them childless
C18_Witness ==
    /\ pass >= 1
    /\ Succeeded(last)
    /\ last.bo = BuildOut(Mixed)
    /\ Count(last.written, "MoveToNextSibling") = 5
    /\ Count(last.written, "MoveToFirstChild") = 2
    /\ Count(last.written, "MoveToParent") = 2

\* the paths of the nodes below the root a complete walk visits, in walk order
RECURSIVE WalkPaths(_, _), KidsWalkPaths(_, _, _)
WalkPaths(n, path) ==
    <<path>> \o (IF Descends(n) THEN KidsWalkPaths(n, path, 1) ELSE <<>>)

KidsWalkPaths(n, path, i) ==
    IF i > Len(n.Kids) THEN <<>>
    ELSE WalkPaths(n.Kids[i], path \o <<i>>) \o KidsWalkPaths(n, path, i + 1)

IsContent(ins) == ins.op \in {"SetElement", "SetText", "SetComment"}

(***************************************************************************)
(* C19  Text and comment nodes are content-only: the SetElement, SetText   *)
(* and SetComment instructions of a pass are, in order, one per visited    *)
(* node below the root, of the node's type and Data; a SetText or          *)
(* SetComment stands between two navigation instructions (nothing else is  *)
(* written for that node, even when it carries attributes, handler specs,  *)
(* raw content or children), and a SetElement is followed by the           *)
(* element's attribute instructions.                                       *)
(***************************************************************************)
C19_ContentOnlyNodes ==
    (pass >= 1 /\ Mounted(last)) =>
        LET w == last.written
            root == Doc(last)
            below == Tail(WalkPaths(root, <<>>))
            content == SelectSeq(w, IsContent)
        IN  /\ Len(content) <= Len(below)
            /\ \A k \in 1..Len(content) : content[k] = FirstOf(NodeAt(root, below[k]))
            /\ Succeeded(last) => Len(content) = Len(below)
            /\ \A i \in 1..Len(w) :
                  /\ w[i].op \in {"SetText", "SetComment"} =>
                        /\ i > 1
                        /\ w[i - 1] \in {MoveToFirstChild, MoveToNextSibling}
                        /\ i < Len(w) => w[i + 1] = MoveToNextSibling
                  /\ (w[i].op = "SetElement" /\ i < Len(w)) =>
                        w[i + 1].op \in {"SetAttr", "RemoveOtherAttrs"}

\* a successful pass over a text node and a comment node that carry attributes,
\* handler specs, raw content and children
C19_Witness ==
    /\ pass >= 1
    /\ Succeeded(last)
    /\ last.bo = BuildOut(TextExtras)
    /\ Count(last.written, "SetText") = 1
    /\ Count(last.written, "SetComment") = 1
    /\ Count(last.written, "SetAttr") = 2

\* the index of the first of Kids that is neither head nor body, Len(Kids) + 1
\* when there is none
RECURSIVE FirstUnexpected(_, _)
FirstUnexpected(Kids, i) ==
    IF i > Len(Kids) \/ ToLower(Kids[i].Data) \notin {"head", "body"} THEN i
    ELSE FirstUnexpected(Kids, i + 1)

TagCount(Kids, upto, tag) ==
    Cardinality({i \in 1..upto : ToLower(Kids[i].Data) = tag})

====
